---- MODULE Spec2Model ----
(***************************************************************************)
(* Model of the PyWren Knative Serving backend                             *)
(* (pywren_ibm_cloud/compute/backends/knative/knative.py), of the retrying *)
(* Compute.invoke wrapper (pywren_ibm_cloud/compute/compute.py) and of the *)
(* runtime utilities (pywren_ibm_cloud/runtime/utils.py).                  *)
(*                                                                         *)
(* Strings are sequences of one-character strings, so that replace,        *)
(* rsplit and slicing are computed as Python computes them.                *)
(***************************************************************************)
EXTENDS Integers, Sequences, FiniteSets, TLC

(***************************************************************************)
(* Bounds of the model.                                                    *)
(***************************************************************************)
\* longest image name drawn for the name-encoding specification
MaxLen == 5

\* largest configured value of Compute.retries
MaxRetries == 3

(***************************************************************************)
(* Python string primitives.                                               *)
(***************************************************************************)
StartsWith(s, p) == Len(p) <= Len(s) /\ SubSeq(s, 1, Len(p)) = p

Drop(s, n) == SubSeq(s, n + 1, Len(s))

\* str.replace(old, new, count): left to right, non-overlapping; a negative
\* count replaces every occurrence.
RECURSIVE Replace(_, _, _, _)
Replace(s, old, new, count) ==
    IF s = << >> \/ count = 0 THEN s
    ELSE IF StartsWith(s, old)
         THEN new \o Replace(Drop(s, Len(old)), old, new, count - 1)
         ELSE <<Head(s)>> \o Replace(Tail(s), old, new, count)

\* the start positions of sep in s
Occurrences(s, sep) ==
    {i \in 1..Len(s) : StartsWith(Drop(s, i - 1), sep)}

Max(S) == CHOOSE m \in S : \A x \in S : x <= m

\* str.rsplit(sep, 1): split at the rightmost occurrence, or the whole string
RSplit1(s, sep) ==
    IF Occurrences(s, sep) = {} THEN <<s>>
    ELSE LET i == Max(Occurrences(s, sep))
         IN  <<SubSeq(s, 1, i - 1), Drop(s, i + Len(sep) - 1)>>

DigitChars == <<"0", "1", "2", "3", "4", "5", "6", "7", "8", "9">>

\* '{}'.format(n) of a non-negative int
RECURSIVE IntToStr(_)
IntToStr(n) ==
    IF n < 10 THEN <<DigitChars[n + 1]>>
    ELSE IntToStr(n \div 10) \o <<DigitChars[(n % 10) + 1]>>

IsDigit(c) == \E d \in 1..10 : DigitChars[d] = c

DigitValue(c) == (CHOOSE d \in 1..10 : DigitChars[d] = c) - 1

\* int(s) succeeds on a non-empty string of digits
IsIntLiteral(s) == s # << >> /\ \A i \in 1..Len(s) : IsDigit(s[i])

RECURSIVE StrToInt(_)
StrToInt(s) ==
    IF s = << >> THEN 0
    ELSE 10 * StrToInt(SubSeq(s, 1, Len(s) - 1)) + DigitValue(s[Len(s)])

(***************************************************************************)
(* KnativeServingBackend._format_service_name / _unformat_service_name     *)
(***************************************************************************)
Sep == <<"-", "-">>

_format_service_name(runtime_name, runtime_memory) ==
    Replace(Replace(runtime_name, <<"/">>, Sep, -1), <<":">>, Sep, -1)
        \o Sep \o IntToStr(runtime_memory) \o <<"m", "b">>

\* a variant that splits the name at its first separator, not at its last
_unformat_service_name_split_first(service_name) ==
    LET occ == Occurrences(service_name, Sep)
        i == CHOOSE x \in occ : \A y \in occ : x <= y
        digits == Replace(Drop(service_name, i + Len(Sep) - 1), <<"m", "b">>, << >>, -1)
    IN  IF occ = {} \/ ~IsIntLiteral(digits)
        THEN [ok |-> FALSE, image |-> << >>, memory |-> 0]
        ELSE [ok |-> TRUE, image |-> SubSeq(service_name, 1, i - 1),
              memory |-> StrToInt(digits)]

\* The result of _unformat_service_name: ok is FALSE when the Python code
\* raises (the unpacking of rsplit's result, or int()).
_unformat_service_name(service_name) ==
    LET parts == RSplit1(service_name, Sep)
    IN  IF Len(parts) # 2
        THEN [ok |-> FALSE, image |-> << >>, memory |-> 0]
        ELSE LET image_name == Replace(Replace(parts[1], Sep, <<"/">>, 1),
                                       Sep, <<":">>, -1)
                 digits == Replace(parts[2], <<"m", "b">>, << >>, -1)
             IN  IF IsIntLiteral(digits)
                 THEN [ok |-> TRUE, image |-> image_name, memory |-> StrToInt(digits)]
                 ELSE [ok |-> FALSE, image |-> << >>, memory |-> 0]

(***************************************************************************)
(* State.                                                                  *)
(***************************************************************************)
VARIABLES
    \* the name-encoding specification: one (image, memory) pair pushed
    \* through _format_service_name and then _unformat_service_name, and
    \* the name computed again from the decoded pair
    image, memory, service_name, decoded, cpc, reencoded,
    \* Compute's configuration: config['invocation_retry'], config['retries']
    invocation_retry, retries,
    \* the cluster: the Knative services of the namespace, by name
    services,
    \* the backend instance: self.service_hosts, self.endpoint, self.headers
    service_hosts, endpoint, headers,
    \* the running Compute.invoke call: where it stands, its arguments and
    \* its locals attempts and act_id
    pc, call, attempts, act_id,
    \* history: one entry per backend invoke of the running call, and the
    \* last HTTP response received
    attempt_log, resp,
    \* knative_config['docker_repo'], the revision derived from __version__,
    \* and whether the registry holds the default image at that tag
    docker_repo, revision, published,
    \* the cluster: whether the build's TaskRun resource exists
    taskrun,
    \* the backend operation in progress, its (docker_image_name, memory)
    \* arguments, whether what it is about existed when it started (the
    \* service of a delete_runtime, the published artifact of a
    \* create_runtime), and the locals of create_runtime and of the
    \* functions it calls
    op, runtime, existed, pod_name, service_url, runtime_meta,
    \* history of the waits of the running create_runtime: per wait, how
    \* it ended and whether one of its events was terminal; and the
    \* readiness condition types seen 'True' by the service wait
    waits, observed,
    \* history: what the running create_runtime has done so far (TaskRun
    \* created, service created, wait begun, request sent to a route), or
    \* one entry per deletion the cluster refused to delete_all_runtimes
    steps,
    \* the metadata store (the runtime keys that hold a record), and the
    \* locals of the function of runtime/utils.py in progress: runtime_key
    \* and the rest of the list it iterates over
    meta_store, runtime_key, pending,
    \* history of that function: its name argument, the (image, memory)
    \* pairs deployed when it started, the pairs it has handed to the
    \* backend, and the services whose deletion the cluster refused
    request, before, handled, failed,
    \* the threads that run KnativeServingBackend.invoke on one backend
    \* instance: per thread its position, arguments, locals and what it sent
    threads,
    \* the orchestrator instances that run create_runtime for the default
    \* image at the same time: per instance its position in
    \* _build_docker_image_from_git, what its registry check saw, whether it
    \* created a TaskRun and whether it deleted one that was there
    orchestrators

codecVars == <<image, memory, service_name, decoded, cpc, reencoded>>

configVars == <<invocation_retry, retries>>

backendVars == <<service_hosts, endpoint, headers>>

invokeVars == <<call, attempts, act_id, attempt_log, resp>>

buildVars == <<docker_repo, revision, published, taskrun>>

createVars == <<op, runtime, existed, pod_name, service_url, runtime_meta, waits,
               observed, steps>>

utilsVars == <<meta_store, runtime_key, pending, request, before, handled, failed>>

vars == <<codecVars, configVars, services, backendVars, pc, invokeVars,
          buildVars, createVars, utilsVars, threads, orchestrators>>

(***************************************************************************)
(* Image names: path components separated by '/', an optional ':tag';      *)
(* '/' and ':' stand between name characters, '-' may repeat inside a      *)
(* component, as the registry's reference grammar allows.                  *)
(***************************************************************************)
Alphabet == {"a", "/", ":", "-"}

Separators == {"/", ":"}

WellFormedImage(s) ==
    /\ s[1] = "a" /\ s[Len(s)] = "a"
    /\ \A i \in 1..Len(s) : s[i] \in Separators => s[i - 1] = "a" /\ s[i + 1] = "a"
    /\ \A i, j \in 1..Len(s) : s[i] = ":" /\ i < j => s[j] \notin Separators

ImageNames ==
    {s \in UNION {[1..n -> Alphabet] : n \in 1..MaxLen} : WellFormedImage(s)}

Memories == {5, 64, 256}

Contains(s, sub) == Occurrences(s, sub) # {}

NoDecoded == [ok |-> FALSE, image |-> << >>, memory |-> 0]

(***************************************************************************)
(* Python values that cross the invocation boundary: None, a string, or a  *)
(* dict (a parsed JSON object, as a set of <<key, value>> pairs).          *)
(***************************************************************************)
None == [tag |-> "None", str |-> "", dict |-> {}]

Str(x) == [tag |-> "str", str |-> x, dict |-> {}]

Dict(d) == [tag |-> "dict", str |-> "", dict |-> d]

\* Python truthiness, as 'not act_id' and 'not runtime_meta' evaluate it
Truthy(v) ==
    \/ v.tag = "str" /\ v.str # ""
    \/ v.tag = "dict" /\ v.dict # {}

HasKey(d, k) == \E p \in d : p[1] = k

Get(d, k) == (CHOOSE p \in d : p[1] = k)[2]

(***************************************************************************)
(* The HTTP exchange of one attempt. The service's answer is the           *)
(* environment's choice: a response with a status code and a body, or no   *)
(* response at all (a transport-level failure of request or getresponse).  *)
(***************************************************************************)
ActivationIds == {"act1", "act2"}

\* resp_data: text that json.loads rejects, or the text of a JSON object
Malformed == [parses |-> FALSE, data |-> {}]

Json(d) == [parses |-> TRUE, data |-> d]

Bodies ==
    {Malformed, Json({}), Json({<<"preinstalls", "modules">>})}
        \cup {Json({<<"activationId", a>>}) : a \in ActivationIds}

Statuses == {200, 202, 404, 500}

Responses ==
    {[kind |-> "response", status |-> st, body |-> b] :
        st \in {200, 202}, b \in Bodies}
    \cup {[kind |-> "response", status |-> st, body |-> Malformed] :
        st \in Statuses \ {200, 202}}
    \cup {[kind |-> "transport", status |-> 0, body |-> Malformed]}

\* the answers the backend specification draws from: to the metadata
\* probe, and to an invocation
ProbeResponses ==
    {[kind |-> "response", status |-> 200,
      body |-> Json({<<"preinstalls", "modules">>})],
     [kind |-> "response", status |-> 200,
      body |-> Json({<<"activationId", "act1">>})],
     [kind |-> "response", status |-> 500, body |-> Malformed]}

CallResponses ==
    {[kind |-> "response", status |-> 202,
      body |-> Json({<<"activationId", "act1">>})],
     [kind |-> "response", status |-> 500, body |-> Malformed],
     [kind |-> "response", status |-> 404, body |-> Malformed]}

NoResponse == [kind |-> "none", status |-> 0, body |-> Malformed]

\* a service URL 'http://<host>' and its slice [7:]
Url(host) == <<"http://", host>>

\* the host the cluster gives a service: its name under the namespace's
\* domain, here the name alone
HostOf(name) == name

\* the host of knative_config['endpoint'], or of the ingress gateway
GatewayHost == <<"g", "w">>

NoHost == << >>

Strip7(url) == url[2]

NoEndpoint == << >>

(***************************************************************************)
(* KnativeServingBackend._get_service_host: cache first, then the cluster. *)
(* apiOk is FALSE when the cluster API call fails for another reason than  *)
(* the service being absent. Every failure leaves the function by an       *)
(* exception.                                                              *)
(***************************************************************************)
\* a variant that takes an absent service for one without a host
_get_service_host_absent_unchecked(name, apiOk) ==
    IF name \in DOMAIN service_hosts
    THEN [raised |-> FALSE, host |-> service_hosts[name],
          service_hosts |-> service_hosts]
    ELSE IF apiOk /\ name \in DOMAIN services /\ services[name].url # << >>
         THEN [raised |-> FALSE, host |-> Strip7(services[name].url),
               service_hosts |-> (name :> Strip7(services[name].url)) @@ service_hosts]
         ELSE [raised |-> FALSE, host |-> NoHost,
               service_hosts |-> (name :> NoHost) @@ service_hosts]

_get_service_host(name, apiOk) ==
    IF name \in DOMAIN service_hosts
    THEN [raised |-> FALSE, host |-> service_hosts[name],
          service_hosts |-> service_hosts]
    ELSE IF apiOk /\ name \in DOMAIN services /\ services[name].url # << >>
         THEN [raised |-> FALSE, host |-> Strip7(services[name].url),
               service_hosts |-> (name :> Strip7(services[name].url)) @@ service_hosts]
         ELSE [raised |-> TRUE, host |-> NoHost, service_hosts |-> service_hosts]

(***************************************************************************)
(* KnativeServingBackend.invoke, lines 492-523: the body of the try block. *)
(* exc is TRUE when the block is left by an exception.                     *)
(***************************************************************************)
\* a variant that returns the activation id whatever return_result says
invoke_try_id_only(r, return_result) ==
    IF r.kind = "transport" THEN [exc |-> TRUE, value |-> None]
    ELSE IF r.status \in {200, 202}
         THEN IF ~r.body.parses THEN [exc |-> TRUE, value |-> None]
              ELSE IF HasKey(r.body.data, "activationId")
                   THEN [exc |-> FALSE,
                         value |-> Str(Get(r.body.data, "activationId"))]
                   ELSE [exc |-> TRUE, value |-> None]
         ELSE IF r.status = 404 THEN [exc |-> TRUE, value |-> None]
         ELSE [exc |-> FALSE, value |-> None]

invoke_try(r, return_result) ==
    IF r.kind = "transport" THEN [exc |-> TRUE, value |-> None]
    ELSE IF r.status \in {200, 202}
         THEN IF ~r.body.parses THEN [exc |-> TRUE, value |-> None]
              ELSE IF return_result
                   THEN [exc |-> FALSE, value |-> Dict(r.body.data)]
                   ELSE IF HasKey(r.body.data, "activationId")
                        THEN [exc |-> FALSE,
                              value |-> Str(Get(r.body.data, "activationId"))]
                        ELSE [exc |-> TRUE, value |-> None]
         ELSE IF r.status = 404 THEN [exc |-> TRUE, value |-> None]
         ELSE [exc |-> FALSE, value |-> None]

(***************************************************************************)
(* KnativeServingBackend.invoke: host resolution (outside the try block),  *)
(* the try block, and the handler of lines 525-529, which logs and lets    *)
(* the function end without a return value. raised is TRUE when the        *)
(* exception of the host resolution leaves invoke; requested is TRUE when  *)
(* the attempt got as far as the HTTP request.                             *)
(***************************************************************************)
\* a variant without the handler of lines 525-529
invoke_unhandled(docker_image_name, mem, return_result, apiOk, r) ==
    LET name == _format_service_name(docker_image_name, mem)
        h == _get_service_host(name, apiOk)
        t == invoke_try(r, return_result)
    IN  IF h.raised
        THEN [raised |-> TRUE, value |-> None, requested |-> FALSE,
              service_hosts |-> service_hosts, endpoint |-> endpoint,
              headers |-> headers]
        ELSE [raised |-> t.exc, requested |-> TRUE,
              value |-> t.value,
              service_hosts |-> h.service_hosts,
              endpoint |-> IF endpoint = NoEndpoint THEN Url(h.host) ELSE endpoint,
              headers |-> <<h.host>>]

invoke(docker_image_name, mem, return_result, apiOk, r) ==
    LET name == _format_service_name(docker_image_name, mem)
        h == _get_service_host(name, apiOk)
        t == invoke_try(r, return_result)
    IN  IF h.raised
        THEN [raised |-> TRUE, value |-> None, requested |-> FALSE,
              service_hosts |-> service_hosts, endpoint |-> endpoint,
              headers |-> headers]
        ELSE [raised |-> FALSE, requested |-> TRUE,
              value |-> IF t.exc THEN None ELSE t.value,
              service_hosts |-> h.service_hosts,
              endpoint |-> IF endpoint = NoEndpoint THEN Url(h.host) ELSE endpoint,
              headers |-> <<h.host>>]

\* what the history keeps of one backend invoke: the status received and
\* the activation id the body carried, if any
Entry(o, r) ==
    IF ~o.requested THEN [kind |-> "nohost", status |-> 0, id |-> ""]
    ELSE [kind |-> r.kind, status |-> r.status,
          id |-> IF r.body.parses /\ HasKey(r.body.data, "activationId")
                 THEN Get(r.body.data, "activationId") ELSE ""]

(***************************************************************************)
(* Operations run one at a time. An operation starts when no other is in   *)
(* progress; the locals of the operations that ended before are gone.      *)
(***************************************************************************)
\* the runtimes that are invoked, created and deleted
DefaultSentinel == <<"d", "e", "f", "a", "u", "l", "t">>

\* _get_default_runtime_image_name(): '<USER>/<runtime of this Python>'
DefaultImage == <<"u", "/", "d">>

RuntimeImages == {<<"a", "/", "a">>}

RuntimeMemories == {256}

NoCall == [image |-> << >>, memory |-> 0]

NoWait == [state |-> "none", terminal |-> FALSE]

NoWaits == [taskrun |-> NoWait, pod |-> NoWait, service |-> NoWait]

Idle == pc \in {"idle", "returned", "raised"}

InvokeLocalsCleared ==
    /\ call' = NoCall
    /\ attempts' = 0
    /\ act_id' = None
    /\ attempt_log' = << >>

CreateLocalsCleared ==
    /\ runtime' = NoCall
    /\ existed' = FALSE
    /\ pod_name' = << >>
    /\ service_url' = << >>
    /\ runtime_meta' = None
    /\ waits' = NoWaits
    /\ observed' = {}
    /\ steps' = << >>

(***************************************************************************)
(* Compute.invoke (compute.py, lines 34-51).                               *)
(***************************************************************************)
\* variants of the loop condition: one that forgets the result of the
\* attempt, one that is off by one
RetryCondition_ignoring_result == invocation_retry /\ attempts < retries

RetryCondition_off_by_one ==
    ~Truthy(act_id) /\ invocation_retry /\ attempts <= retries

RetryCondition_ignoring_policy == ~Truthy(act_id) /\ attempts < retries

\* the condition of the while loop, line 41
RetryCondition == ~Truthy(act_id) /\ invocation_retry /\ attempts < retries

\* line 38: the first attempt, and attempts = 1; R is the set of answers
\* the service may give
Compute_invoke_first(img, mem, R) ==
    /\ Idle
    /\ \E apiOk \in BOOLEAN, r \in R :
         LET o == invoke(img, mem, FALSE, apiOk, r)
         IN  /\ op' = "invoke"
             /\ call' = [image |-> img, memory |-> mem]
             /\ service_hosts' = o.service_hosts
             /\ endpoint' = o.endpoint
             /\ headers' = o.headers
             /\ attempt_log' = <<Entry(o, r)>>
             /\ resp' = IF o.requested THEN r ELSE NoResponse
             /\ act_id' = o.value
             /\ IF o.raised
                THEN pc' = "raised" /\ attempts' = 0
                ELSE pc' = "while" /\ attempts' = 1
    /\ CreateLocalsCleared
    /\ UNCHANGED <<codecVars, utilsVars, threads, orchestrators, configVars, services, buildVars>>

\* lines 41-49: one turn of the loop
Compute_invoke_retry(R) ==
    /\ pc = "while"
    /\ RetryCondition
    /\ \E apiOk \in BOOLEAN, r \in R :
         LET o == invoke(call.image, call.memory, FALSE, apiOk, r)
         IN  /\ attempts' = attempts + 1
             /\ service_hosts' = o.service_hosts
             /\ endpoint' = o.endpoint
             /\ headers' = o.headers
             /\ attempt_log' = Append(attempt_log, Entry(o, r))
             /\ resp' = IF o.requested THEN r ELSE NoResponse
             /\ act_id' = o.value
             /\ pc' = IF o.raised THEN "raised" ELSE "while"
    /\ UNCHANGED <<codecVars, utilsVars, threads, orchestrators, configVars, services, buildVars, createVars, call>>

\* line 51: return act_id
Compute_invoke_return ==
    /\ pc = "while"
    /\ ~RetryCondition
    /\ pc' = "returned"
    /\ UNCHANGED <<codecVars, utilsVars, threads, orchestrators, configVars, services, backendVars, buildVars,
                   createVars, call, attempts, act_id, attempt_log, resp>>

(***************************************************************************)
(* The events of a watch stream. A stream hands over events, ends, or      *)
(* fails with an exception; which, and what the events carry, is the       *)
(* cluster's choice.                                                       *)
(***************************************************************************)
Cond(t, st) == [type |-> t, status |-> st]

\* the readiness conditions of a Knative service, which _create_service
\* reads at positions 0, 1 and 2 of status.conditions
Required == {"ConfigurationsReady", "Ready", "RoutesReady"}

\* event['object'] of a service event: no status yet, or a status with
\* conditions and possibly a url
ServiceSnapshots ==
    { [hasStatus |-> FALSE, hasUrl |-> FALSE, conditions |-> << >>],
      [hasStatus |-> TRUE, hasUrl |-> FALSE,
       conditions |-> <<Cond("ConfigurationsReady", "Unknown"),
                        Cond("Ready", "Unknown"),
                        Cond("RoutesReady", "Unknown")>>],
      [hasStatus |-> TRUE, hasUrl |-> TRUE,
       conditions |-> <<Cond("ConfigurationsReady", "True"),
                        Cond("Ready", "Unknown"),
                        Cond("RoutesReady", "Unknown")>>],
      [hasStatus |-> TRUE, hasUrl |-> TRUE,
       conditions |-> <<Cond("ConfigurationsReady", "True"),
                        Cond("Ready", "True"),
                        Cond("RoutesReady", "True")>>],
      [hasStatus |-> TRUE, hasUrl |-> FALSE,
       conditions |-> <<Cond("ConfigurationsReady", "True"),
                        Cond("Ready", "True"),
                        Cond("RoutesReady", "True")>>],
      [hasStatus |-> TRUE, hasUrl |-> TRUE,
       conditions |-> <<Cond("ConfigurationsReady", "False"),
                        Cond("Ready", "False"),
                        Cond("RoutesReady", "Unknown")>>],
      [hasStatus |-> TRUE, hasUrl |-> TRUE,
       conditions |-> <<Cond("Active", "True"),
                        Cond("Available", "True"),
                        Cond("ConfigurationsReady", "True"),
                        Cond("Ready", "Unknown"),
                        Cond("RoutesReady", "Unknown")>>],
      [hasStatus |-> TRUE, hasUrl |-> FALSE,
       conditions |-> <<Cond("ConfigurationsReady", "True"),
                        Cond("Ready", "True")>>] }

PodPhases == {"Pending", "Running", "Succeeded", "Failed"}

\* the required condition types an event reports 'True'
TrueTypes(snap) ==
    {t \in Required :
        \E k \in 1..Len(snap.conditions) :
            snap.conditions[k] = Cond(t, "True")}

FailedTypes(snap) ==
    {t \in Required :
        \E k \in 1..Len(snap.conditions) :
            snap.conditions[k] = Cond(t, "False")}

\* lines 353-354: conditions and conditions[0]['status'] == 'True' and
\* conditions[1]... and conditions[2]..., evaluated left to right
PositionalReady(conditions) ==
    IF Len(conditions) = 0 THEN "no"
    ELSE IF conditions[1].status # "True" THEN "no"
    ELSE IF Len(conditions) < 2 THEN "IndexError"
    ELSE IF conditions[2].status # "True" THEN "no"
    ELSE IF Len(conditions) < 3 THEN "IndexError"
    ELSE IF conditions[3].status # "True" THEN "no"
    ELSE "yes"

\* a terminal service event: the one the code stops at, one with every
\* required condition true, or one with a required condition failed
TerminalService(snap) ==
    /\ snap.hasStatus
    /\ \/ PositionalReady(snap.conditions) = "yes"
       \/ TrueTypes(snap) = Required
       \/ FailedTypes(snap) # {}

(***************************************************************************)
(* KnativeServingBackend.create_runtime, lines 392-397, with the start of  *)
(* _build_docker_image_from_git, lines 230-268: the build is skipped when  *)
(* the registry is docker.io, the revision is not 'latest' and the         *)
(* registry answers 200 for the tag; otherwise the TaskRun is created.     *)
\* a variant that recognises the sentinel only, never the default image's name
IsDefaultImage_sentinel_only(docker_image_name) == docker_image_name = DefaultSentinel

\* create_runtime, lines 392-397: the two tests that send the call to the build
IsDefaultImage(docker_image_name) == docker_image_name \in {DefaultSentinel, DefaultImage}

(***************************************************************************)
\* a variant that makes the registry check for every revision
BuildSkipped_any_tag == docker_repo = "docker.io" /\ published

BuildSkipped == docker_repo = "docker.io" /\ revision # "latest" /\ published

backend_create_runtime(docker_image_name, mem) ==
    /\ LET isDefault == IsDefaultImage(docker_image_name)
           name == IF isDefault THEN DefaultImage ELSE docker_image_name
       IN  /\ runtime' = [image |-> name, memory |-> mem]
           /\ IF isDefault /\ ~BuildSkipped
              THEN /\ taskrun' = TRUE
                   /\ pc' = "taskrun_wait"
                   /\ waits' = [NoWaits EXCEPT !.taskrun.state = "running"]
                   /\ steps' = <<"build">>
              ELSE /\ taskrun' = taskrun
                   /\ pc' = "create_service"
                   /\ waits' = NoWaits
                   /\ steps' = << >>
    /\ InvokeLocalsCleared
    /\ resp' = NoResponse
    /\ existed' = published
    /\ pod_name' = << >>
    /\ service_url' = << >>
    /\ runtime_meta' = None
    /\ observed' = {}
    /\ UNCHANGED <<codecVars, threads, orchestrators, configVars, services, backendVars,
                   docker_repo, revision, published>>

\* a call of the backend's create_runtime from outside runtime/utils.py
create_runtime(docker_image_name, mem) ==
    /\ Idle
    /\ op' = "create_runtime"
    /\ backend_create_runtime(docker_image_name, mem)
    /\ UNCHANGED utilsVars

\* lines 271-281, one event of the TaskRun stream: the first event with a
\* status gives the pod name and stops the watch
taskrun_event(hasStatus) ==
    /\ pc = "taskrun_wait"
    /\ IF hasStatus
       THEN /\ pod_name' = <<"p">>
            /\ waits' = [waits EXCEPT !.taskrun = [state |-> "returned", terminal |-> TRUE],
                                      !.pod.state = "running"]
            /\ pc' = "pod_wait"
       ELSE UNCHANGED <<pod_name, waits, pc>>
    /\ UNCHANGED <<codecVars, utilsVars, threads, orchestrators, steps, configVars, services, backendVars, invokeVars,
                   buildVars, op, runtime, existed, service_url, runtime_meta, observed>>

\* lines 273-281, the TaskRun stream ends: pod_name is None, line 281 raises
taskrun_end ==
    /\ pc = "taskrun_wait"
    /\ waits' = [waits EXCEPT !.taskrun.state = "raised"]
    /\ pc' = "raised"
    /\ UNCHANGED <<codecVars, utilsVars, threads, orchestrators, steps, configVars, services, backendVars, invokeVars,
                   buildVars, op, runtime, existed, pod_name, service_url, runtime_meta,
                   observed>>

\* lines 283-299, one event of the pod stream
pod_event(phase) ==
    /\ pc = "pod_wait"
    /\ CASE phase = "Succeeded" ->
              /\ waits' = [waits EXCEPT !.pod = [state |-> "returned", terminal |-> TRUE]]
              /\ taskrun' = FALSE
              /\ published' = TRUE
              /\ pc' = "create_service"
         [] phase = "Failed" ->
              /\ waits' = [waits EXCEPT !.pod = [state |-> "raised", terminal |-> TRUE]]
              /\ pc' = "raised"
              /\ UNCHANGED <<taskrun, published>>
         [] OTHER -> UNCHANGED <<waits, taskrun, published, pc>>
    /\ UNCHANGED <<codecVars, utilsVars, threads, orchestrators, steps, configVars, services, backendVars, invokeVars,
                   docker_repo, revision, op, runtime, existed, pod_name, service_url,
                   runtime_meta, observed>>

\* lines 284-299, the pod stream ends: the for loop is left and the
\* function goes on to delete the TaskRun and return
pod_end ==
    /\ pc = "pod_wait"
    /\ waits' = [waits EXCEPT !.pod.state = "returned"]
    /\ taskrun' = FALSE
    /\ pc' = "create_service"
    /\ UNCHANGED <<codecVars, utilsVars, threads, orchestrators, steps, configVars, services, backendVars, invokeVars,
                   docker_repo, revision, published, op, runtime, existed, pod_name,
                   service_url, runtime_meta, observed>>

\* a watch stream fails: the exception leaves create_runtime
watch_error ==
    /\ pc \in {"taskrun_wait", "pod_wait", "service_wait"}
    /\ waits' = CASE pc = "taskrun_wait" -> [waits EXCEPT !.taskrun.state = "raised"]
                  [] pc = "pod_wait" -> [waits EXCEPT !.pod.state = "raised"]
                  [] OTHER -> [waits EXCEPT !.service.state = "raised"]
    /\ pc' = "raised"
    /\ UNCHANGED <<codecVars, utilsVars, threads, orchestrators, steps, configVars, services, backendVars, invokeVars,
                   buildVars, op, runtime, existed, pod_name, service_url, runtime_meta,
                   observed>>

(***************************************************************************)
(* KnativeServingBackend._create_service, lines 303-341: delete the        *)
(* service if it exists (any failure ignored), then create it. The create  *)
(* call raises when the API fails or the name is still taken.              *)
(***************************************************************************)
Without(f, D) == [n \in (DOMAIN f) \ D |-> f[n]]

\* the service resource of lines 308-319: its name comes from the caller;
\* the label, the container image and the memory limit are in its body
NewService(docker_image_name, runtime_memory) ==
    [url |-> << >>, label |-> TRUE, image |-> docker_image_name,
     memory |-> runtime_memory]

_create_service ==
    /\ pc = "create_service"
    /\ \E deleteOk \in BOOLEAN, createOk \in BOOLEAN :
         LET name == _format_service_name(runtime.image, runtime.memory)
             afterDelete == IF deleteOk THEN Without(services, {name}) ELSE services
         IN  IF createOk /\ name \notin DOMAIN afterDelete
             THEN /\ services' = (name :> NewService(runtime.image, runtime.memory)) @@ afterDelete
                  /\ waits' = [waits EXCEPT !.service.state = "running"]
                  /\ steps' = steps \o <<"create_service", "wait">>
                  /\ pc' = "service_wait"
             ELSE /\ services' = afterDelete
                  /\ waits' = waits
                  /\ steps' = steps
                  /\ pc' = "raised"
    /\ UNCHANGED <<codecVars, utilsVars, threads, orchestrators, configVars, backendVars, invokeVars, buildVars,
                   op, runtime, existed, pod_name, service_url, runtime_meta, observed>>

(***************************************************************************)
(* _create_service, lines 360-365, and create_runtime, lines 401-402:      *)
(* what follows the for loop of the service watch. url is service_url as   *)
(* the loop left it; unbound, line 360 raises.                             *)
(***************************************************************************)
AfterServiceWait(url) ==
    IF url = << >>
    THEN /\ pc' = "raised"
         /\ UNCHANGED <<service_hosts, endpoint>>
    ELSE /\ service_hosts' =
               (_format_service_name(runtime.image, runtime.memory) :> Strip7(url))
                   @@ service_hosts
         /\ endpoint' = IF endpoint = NoEndpoint THEN url ELSE endpoint
         /\ pc' = "probe"

\* lines 344-358, one event of the service stream
service_event(snap) ==
    /\ pc = "service_wait"
    /\ LET name == _format_service_name(runtime.image, runtime.memory)
           carriesUrl == snap.hasStatus /\ snap.hasUrl
           url == Url(HostOf(name))
           newUrl == IF carriesUrl THEN url ELSE service_url
           verdict == IF snap.hasStatus THEN PositionalReady(snap.conditions) ELSE "no"
           terminal == waits.service.terminal \/ TerminalService(snap)
       IN  /\ services' = IF carriesUrl THEN [services EXCEPT ![name].url = url]
                          ELSE services
           /\ service_url' = newUrl
           /\ observed' = IF snap.hasStatus THEN observed \cup TrueTypes(snap)
                          ELSE observed
           /\ CASE verdict = "yes" ->
                     /\ AfterServiceWait(newUrl)
                     /\ waits' = [waits EXCEPT !.service =
                            [state |-> IF newUrl = << >> THEN "raised" ELSE "returned",
                             terminal |-> terminal]]
                [] verdict = "IndexError" ->
                     /\ pc' = "raised"
                     /\ waits' = [waits EXCEPT !.service =
                            [state |-> "raised", terminal |-> terminal]]
                     /\ UNCHANGED <<service_hosts, endpoint>>
                [] OTHER ->
                     /\ waits' = [waits EXCEPT !.service.terminal = terminal]
                     /\ UNCHANGED <<pc, service_hosts, endpoint>>
    /\ UNCHANGED <<codecVars, utilsVars, threads, orchestrators, steps, configVars, headers, invokeVars, buildVars,
                   op, runtime, existed, pod_name, runtime_meta>>

\* lines 344-365, the service stream ends: the for loop is left
service_end ==
    /\ pc = "service_wait"
    /\ AfterServiceWait(service_url)
    /\ waits' = [waits EXCEPT !.service.state =
                    IF service_url = << >> THEN "raised" ELSE "returned"]
    /\ UNCHANGED <<codecVars, utilsVars, threads, orchestrators, steps, configVars, services, headers, invokeVars,
                   buildVars, op, runtime, existed, pod_name, service_url, runtime_meta,
                   observed>>

(***************************************************************************)
(* _generate_runtime_meta, lines 367-383, and create_runtime, lines        *)
(* 404-406: the metadata probe, an invoke that asks for the result.       *)
\* a variant that takes the service back when the probe fails
ServicesAfterFailedProbe_rollback == Without(services, {_format_service_name(runtime.image, runtime.memory)})

\* create_runtime, lines 399-406: no handler surrounds the probe, the exception
\* leaves create_runtime with the cluster as _create_service left it
ServicesAfterFailedProbe == services

(***************************************************************************)
\* a variant of the test of line 380 that only rejects an absent result
MetaRejected_absent_only(v) == ~Truthy(v)

\* line 380: not runtime_meta or 'preinstalls' not in runtime_meta
MetaRejected(v) == ~Truthy(v) \/ ~HasKey(v.dict, "preinstalls")

\* where a create_runtime that succeeded returns to: its caller in
\* runtime/utils.py stores the metadata next
UtilsCallers == {"utils.create_runtime", "utils.update_runtime"}

_generate_runtime_meta(R) ==
    /\ pc = "probe"
    /\ \E apiOk \in BOOLEAN, r \in R :
         LET o == invoke(runtime.image, runtime.memory, TRUE, apiOk, r)
         IN  /\ service_hosts' = o.service_hosts
             /\ endpoint' = o.endpoint
             /\ headers' = o.headers
             /\ attempt_log' = <<Entry(o, r)>>
             /\ resp' = IF o.requested THEN r ELSE NoResponse
             /\ runtime_meta' = o.value
             /\ steps' = IF o.requested
                         THEN Append(steps, "POST /preinstalls") ELSE steps
             /\ pc' = IF o.raised \/ MetaRejected(o.value) THEN "raised"
                      ELSE IF op \in UtilsCallers THEN "put_runtime_meta"
                      ELSE "returned"
             /\ services' = IF o.raised \/ MetaRejected(o.value)
                            THEN ServicesAfterFailedProbe ELSE services
    /\ UNCHANGED <<codecVars, utilsVars, threads, orchestrators, configVars, buildVars, call,
                   attempts, act_id, op, runtime, existed, pod_name, service_url, waits,
                   observed>>

(***************************************************************************)
(* KnativeServingBackend.delete_runtime, lines 429-442. The cluster's      *)
(* delete call raises when the service is absent or the API fails; the     *)
(* function ignores every exception.                                       *)
(***************************************************************************)
api_delete_service(name, apiOk) ==
    [exc |-> ~(apiOk /\ name \in DOMAIN services),
     services |-> IF apiOk THEN Without(services, {name}) ELSE services]

\* a variant without the try/except of lines 432-442
delete_runtime_unguarded(docker_image_name, mem, apiOk) ==
    LET d == api_delete_service(_format_service_name(docker_image_name, mem), apiOk)
    IN  [raised |-> d.exc, services |-> d.services]

delete_runtime_result(docker_image_name, mem, apiOk) ==
    LET d == api_delete_service(_format_service_name(docker_image_name, mem), apiOk)
    IN  [raised |-> FALSE, services |-> d.services]

delete_runtime(docker_image_name, mem) ==
    /\ Idle
    /\ op' = "delete_runtime"
    /\ runtime' = [image |-> docker_image_name, memory |-> mem]
    /\ existed' = (_format_service_name(docker_image_name, mem) \in DOMAIN services)
    /\ \E apiOk \in BOOLEAN :
         LET d == delete_runtime_result(docker_image_name, mem, apiOk)
         IN  /\ services' = d.services
             /\ pc' = IF d.raised THEN "raised" ELSE "returned"
    /\ InvokeLocalsCleared
    /\ resp' = NoResponse
    /\ pod_name' = << >>
    /\ service_url' = << >>
    /\ runtime_meta' = None
    /\ waits' = NoWaits
    /\ observed' = {}
    /\ steps' = << >>
    /\ UNCHANGED <<codecVars, utilsVars, threads, orchestrators, configVars, backendVars, buildVars>>

(***************************************************************************)
(* KnativeServingBackend.list_runtimes, lines 452-476: the (image, memory) *)
(* pairs decoded from the names of the labelled services; a service whose  *)
(* label is missing or whose name does not decode is passed over.          *)
(***************************************************************************)
All == <<"a", "l", "l">>

list_runtimes(docker_image_name) ==
    {<<_unformat_service_name(n).image, _unformat_service_name(n).memory>> :
        n \in {m \in DOMAIN services :
                 /\ services[m].label
                 /\ _unformat_service_name(m).ok
                 /\ \/ docker_image_name = _unformat_service_name(m).image
                    \/ docker_image_name = All}}

(***************************************************************************)
(* KnativeServingBackend.delete_all_runtimes, lines 444-450: delete_runtime*)
(* for every listed pair. The list call may raise; a delete that fails is  *)
(* ignored.                                                                *)
(***************************************************************************)
delete_all_runtimes ==
    /\ Idle
    /\ op' = "delete_all_runtimes"
    /\ \E listOk \in BOOLEAN :
         LET targets == {_format_service_name(rt[1], rt[2]) : rt \in list_runtimes(All)}
         IN  IF listOk
             THEN /\ \E failing \in SUBSET targets :
                        /\ services' = Without(services, targets \ failing)
                        /\ steps' = [k \in 1..Cardinality(failing) |-> "delete refused"]
                  /\ pc' = "returned"
             ELSE /\ services' = services
                  /\ steps' = << >>
                  /\ pc' = "raised"
    /\ InvokeLocalsCleared
    /\ resp' = NoResponse
    /\ runtime' = NoCall
    /\ existed' = FALSE
    /\ pod_name' = << >>
    /\ service_url' = << >>
    /\ runtime_meta' = None
    /\ waits' = NoWaits
    /\ observed' = {}
    /\ UNCHANGED <<codecVars, utilsVars, threads, orchestrators, configVars, backendVars, buildVars>>

(***************************************************************************)
(* runtime/utils.py: create_runtime, update_runtime and delete_runtime.    *)
(* Each builds a Compute handler and an InternalStorage, and keeps the     *)
(* metadata store in step with what it asks of the backend.                *)
(***************************************************************************)
\* KnativeServingBackend.get_runtime_key, lines 531-542: cluster, namespace
\* and service name, joined as a path
get_runtime_key(docker_image_name, runtime_memory) ==
    <<"cluster", "namespace", _format_service_name(docker_image_name, runtime_memory)>>

\* the (image, memory) pairs of the labelled services of the cluster, as
\* their resources state them
Deployed ==
    {[image |-> services[n].image, memory |-> services[n].memory] :
        n \in {m \in DOMAIN services : services[m].label}}

\* the orders in which the cluster may list a set of items
Orderings(S) ==
    {q \in [1..Cardinality(S) -> S] : \A x \in S : \E i \in DOMAIN q : q[i] = x}

\* utils.create_runtime, lines 30-42: the key is computed from the name as
\* given, then the backend creates the runtime
utils_create_runtime(name, mem) ==
    /\ Idle
    /\ op' = "utils.create_runtime"
    /\ runtime_key' = get_runtime_key(name, mem)
    /\ pending' = << >>
    /\ request' = name
    /\ before' = Deployed
    /\ handled' = {[image |-> name, memory |-> mem]}
    /\ failed' = {}
    /\ backend_create_runtime(name, mem)
    /\ UNCHANGED meta_store

\* utils.create_runtime, lines 44-47, and utils.update_runtime, lines
\* 66-69: the metadata is stored under runtime_key; a failure of the store
\* is raised
put_runtime_meta ==
    /\ pc = "put_runtime_meta"
    /\ \E putOk \in BOOLEAN :
         IF putOk
         THEN /\ meta_store' = meta_store \cup {runtime_key}
              /\ pc' = IF op = "utils.update_runtime" THEN "update_loop"
                       ELSE "returned"
         ELSE /\ meta_store' = meta_store
              /\ pc' = "raised"
    /\ UNCHANGED <<codecVars, threads, orchestrators, configVars, services, backendVars, invokeVars,
                   buildVars, createVars, runtime_key, pending, request, before,
                   handled, failed>>

\* utils.update_runtime, lines 50-60: the runtimes to recreate are those
\* list_runtimes(name) returns; the list call may raise
utils_update_runtime(name) ==
    /\ Idle
    /\ op' = "utils.update_runtime"
    /\ runtime_key' = << >>
    /\ request' = name
    /\ before' = Deployed
    /\ handled' = {}
    /\ failed' = {}
    /\ \E listOk \in BOOLEAN :
         IF listOk
         THEN /\ pending' \in Orderings(list_runtimes(name))
              /\ pc' = "update_loop"
         ELSE /\ pending' = << >>
              /\ pc' = "raised"
    /\ InvokeLocalsCleared
    /\ resp' = NoResponse
    /\ CreateLocalsCleared
    /\ UNCHANGED <<codecVars, threads, orchestrators, configVars, services, backendVars, buildVars,
                   meta_store>>

\* utils.update_runtime, lines 62-64: the next runtime of the list is
\* created again, with the image and the memory the list gave
update_runtime_next ==
    /\ pc = "update_loop"
    /\ pending # << >>
    /\ runtime_key' = get_runtime_key(Head(pending)[1], Head(pending)[2])
    /\ pending' = Tail(pending)
    /\ handled' = handled \cup
                    {[image |-> Head(pending)[1], memory |-> Head(pending)[2]]}
    /\ backend_create_runtime(Head(pending)[1], Head(pending)[2])
    /\ UNCHANGED <<op, meta_store, request, before, failed>>

\* utils.update_runtime, line 62: the list is exhausted
update_runtime_return ==
    /\ pc = "update_loop"
    /\ pending = << >>
    /\ pc' = "returned"
    /\ UNCHANGED <<codecVars, threads, orchestrators, configVars, services, backendVars, invokeVars,
                   buildVars, createVars, utilsVars>>

\* utils.delete_runtime, lines 82-93: for every runtime list_runtimes(name)
\* returns, the backend deletes the service (a refusal of the cluster is
\* ignored there) and the record under its key is deleted
utils_delete_runtime(name) ==
    /\ Idle
    /\ op' = "utils.delete_runtime"
    /\ runtime_key' = << >>
    /\ pending' = << >>
    /\ request' = name
    /\ before' = Deployed
    /\ \E listOk \in BOOLEAN :
         LET listed == list_runtimes(name)
             targets == {_format_service_name(rt[1], rt[2]) : rt \in listed}
         IN  IF listOk
             THEN /\ \E failing \in SUBSET targets :
                        /\ services' = Without(services, targets \ failing)
                        /\ failed' = failing
                  /\ meta_store' = meta_store \
                        {get_runtime_key(rt[1], rt[2]) : rt \in listed}
                  /\ handled' = {[image |-> rt[1], memory |-> rt[2]] : rt \in listed}
                  /\ pc' = "returned"
             ELSE /\ UNCHANGED <<services, meta_store>>
                  /\ failed' = {}
                  /\ handled' = {}
                  /\ pc' = "raised"
    /\ InvokeLocalsCleared
    /\ resp' = NoResponse
    /\ CreateLocalsCleared
    /\ UNCHANGED <<codecVars, threads, orchestrators, configVars, backendVars, buildVars>>

(***************************************************************************)
(* KnativeServingBackend.invoke run by several threads on one backend      *)
(* instance. self.service_hosts, self.endpoint and self.headers belong to  *)
(* the instance; a thread runs the statements of invoke in order, and      *)
(* another thread may run between any two of them.                         *)
(***************************************************************************)
NoRequest == [Host |-> NoHost, netloc |-> NoHost]

\* a thread about to call invoke(docker_image_name, mem, payload)
ThreadAt(docker_image_name, mem) ==
    [pc |-> "resolve", image |-> docker_image_name, memory |-> mem,
     sent |-> NoRequest, value |-> None]

otherThanInstance == <<codecVars, configVars, services, pc, invokeVars, buildVars,
                       createVars, utilsVars, orchestrators>>

\* lines 482-484: self.headers['Host'] = self._get_service_host(service_name)
thread_resolve(t) ==
    /\ threads[t].pc = "resolve"
    /\ \E apiOk \in BOOLEAN :
         LET h == _get_service_host(
                     _format_service_name(threads[t].image, threads[t].memory), apiOk)
         IN  IF h.raised
             THEN /\ threads' = [threads EXCEPT ![t].pc = "raised"]
                  /\ UNCHANGED <<service_hosts, headers>>
             ELSE /\ threads' = [threads EXCEPT ![t].pc = "endpoint"]
                  /\ service_hosts' = h.service_hosts
                  /\ headers' = <<h.host>>
    /\ UNCHANGED <<endpoint, otherThanInstance>>

\* lines 485-486: the endpoint, if none is set yet
thread_endpoint(t) ==
    /\ threads[t].pc = "endpoint"
    /\ \E apiOk \in BOOLEAN :
         LET h == _get_service_host(
                     _format_service_name(threads[t].image, threads[t].memory), apiOk)
         IN  IF endpoint # NoEndpoint
             THEN /\ threads' = [threads EXCEPT ![t].pc = "request"]
                  /\ UNCHANGED <<service_hosts, endpoint>>
             ELSE IF h.raised
                  THEN /\ threads' = [threads EXCEPT ![t].pc = "raised"]
                       /\ UNCHANGED <<service_hosts, endpoint>>
                  ELSE /\ threads' = [threads EXCEPT ![t].pc = "request"]
                       /\ service_hosts' = h.service_hosts
                       /\ endpoint' = Url(h.host)
    /\ UNCHANGED <<headers, otherThanInstance>>

\* lines 496-500: the connection to self.endpoint, and the request with
\* self.headers as they are now
thread_request(t) ==
    /\ threads[t].pc = "request"
    /\ threads' = [threads EXCEPT ![t].pc = "response",
                                  ![t].sent = [Host |-> headers[1],
                                               netloc |-> Strip7(endpoint)]]
    /\ UNCHANGED <<backendVars, otherThanInstance>>

\* lines 503-529: the response, and the value invoke returns
thread_response(t, r) ==
    /\ threads[t].pc = "response"
    /\ LET v == invoke_try(r, FALSE)
       IN  threads' = [threads EXCEPT ![t].pc = "done",
                                      ![t].value = IF v.exc THEN None ELSE v.value]
    /\ UNCHANGED <<backendVars, otherThanInstance>>

(***************************************************************************)
(* create_runtime for the default image run by several orchestrator        *)
(* instances at the same time, against one registry and one namespace.     *)
(* Each instance goes through _build_docker_image_from_git: the registry   *)
(* check of lines 232-238, the TaskRun of lines 240-268 and the end of the *)
(* build, lines 271-299. The TaskRun has one fixed name in the namespace.   *)
(***************************************************************************)
OrchestratorAt(p) ==
    [pc |-> p, saw |-> "nothing", started |-> FALSE, replaced |-> FALSE]

otherThanBuild == <<codecVars, configVars, services, backendVars, pc, invokeVars,
                    docker_repo, revision, createVars, utilsVars, threads>>

\* a variant that reads the registry and the namespace again before it
\* creates the TaskRun
BuildDecision_fresh(i) == ~published /\ ~taskrun

\* lines 235-240: the function goes on to the build on what its own check
\* saw; nothing is read again before the TaskRun is created
BuildDecision(i) == orchestrators[i].saw # "200"

\* create_runtime, lines 392-397, and lines 230-238: the existence check
orchestrator_check(i) ==
    /\ orchestrators[i].pc = "check"
    /\ LET checked == docker_repo = "docker.io" /\ revision # "latest"
           saw == IF BuildSkipped THEN "200"
                  ELSE IF checked THEN "404" ELSE "unchecked"
       IN  orchestrators' =
              [orchestrators EXCEPT ![i].saw = saw,
                                    ![i].pc = IF saw = "200" THEN "create_service"
                                              ELSE "build"]
    /\ UNCHANGED <<published, taskrun, otherThanBuild>>

\* lines 240-268: a TaskRun of the fixed name is deleted if there is one,
\* and the instance's own TaskRun is created
orchestrator_build(i) ==
    /\ orchestrators[i].pc = "build"
    /\ IF BuildDecision(i)
       THEN /\ taskrun' = TRUE
            /\ orchestrators' = [orchestrators EXCEPT ![i].pc = "building",
                                                      ![i].started = TRUE,
                                                      ![i].replaced = taskrun]
       ELSE /\ taskrun' = taskrun
            /\ orchestrators' = [orchestrators EXCEPT ![i].pc = "create_service"]
    /\ UNCHANGED <<published, otherThanBuild>>

\* lines 271-299: the build pod ends; after a success the artifact is in
\* the registry and the TaskRun is deleted, which raises when another
\* instance has deleted it already
orchestrator_build_end(i, phase) ==
    /\ orchestrators[i].pc = "building"
    /\ IF phase = "Succeeded"
       THEN /\ published' = TRUE
            /\ taskrun' = FALSE
            /\ orchestrators' =
                  [orchestrators EXCEPT ![i].pc = IF taskrun THEN "create_service"
                                                  ELSE "raised"]
       ELSE /\ orchestrators' = [orchestrators EXCEPT ![i].pc = "raised"]
            /\ UNCHANGED <<published, taskrun>>
    /\ UNCHANGED otherThanBuild

(***************************************************************************)
(* Initial values of the parts a specification leaves alone.               *)
(***************************************************************************)
CodecQuiet ==
    /\ image = << >>
    /\ memory = 0
    /\ service_name = << >>
    /\ decoded = NoDecoded
    /\ cpc = "off"
    /\ reencoded = << >>

InvokeQuiet ==
    /\ call = NoCall
    /\ attempts = 0
    /\ act_id = None
    /\ attempt_log = << >>
    /\ resp = NoResponse

CreateQuiet ==
    /\ op = "none"
    /\ runtime = NoCall
    /\ existed = FALSE
    /\ pod_name = << >>
    /\ service_url = << >>
    /\ runtime_meta = None
    /\ waits = NoWaits
    /\ observed = {}
    /\ steps = << >>

UtilsQuiet ==
    /\ meta_store = {}
    /\ runtime_key = << >>
    /\ pending = << >>
    /\ request = << >>
    /\ before = {}
    /\ handled = {}
    /\ failed = {}

NoThreads == << >>

NoOrchestrators == << >>

BuildQuiet ==
    /\ docker_repo = "docker.io"
    /\ revision = "latest"
    /\ published = FALSE
    /\ taskrun = FALSE

\* a deployed, labelled service whose status carries its URL
ReadyService(docker_image_name, mem) ==
    [url |-> Url(HostOf(_format_service_name(docker_image_name, mem))),
     label |-> TRUE, image |-> docker_image_name, memory |-> mem]

(***************************************************************************)
(* The specification of the backend: a fresh backend instance on an empty  *)
(* namespace, with retry enabled and two attempts at most; create_runtime, *)
(* delete_runtime, delete_all_runtimes and Compute.invoke in any order.    *)
(***************************************************************************)
CreateImages == RuntimeImages \cup {DefaultSentinel, DefaultImage}

InvokeImages == RuntimeImages \cup {DefaultImage}

Init ==
    /\ CodecQuiet
    /\ UtilsQuiet
    /\ threads = NoThreads
    /\ orchestrators = NoOrchestrators
    /\ InvokeQuiet
    /\ CreateQuiet
    /\ pc = "idle"
    /\ invocation_retry = TRUE
    /\ retries = 2
    /\ services = << >>
    /\ service_hosts = << >>
    /\ endpoint \in {NoEndpoint, Url(GatewayHost)}
    /\ headers = << >>
    /\ \E c \in {<<"docker.io", "1.0">>, <<"docker.io", "latest">>,
                 <<"private.example", "1.0">>} :
         docker_repo = c[1] /\ revision = c[2]
    /\ published \in BOOLEAN
    /\ taskrun = FALSE

Next ==
    \/ \E i \in CreateImages, m \in RuntimeMemories : create_runtime(i, m)
    \/ \E hasStatus \in BOOLEAN : taskrun_event(hasStatus)
    \/ taskrun_end
    \/ \E phase \in PodPhases : pod_event(phase)
    \/ pod_end
    \/ watch_error
    \/ _create_service
    \/ \E snap \in ServiceSnapshots : service_event(snap)
    \/ service_end
    \/ _generate_runtime_meta(ProbeResponses)
    \/ \E i \in InvokeImages, m \in RuntimeMemories : delete_runtime(i, m)
    \/ delete_all_runtimes
    \/ \E i \in InvokeImages, m \in RuntimeMemories :
          Compute_invoke_first(i, m, CallResponses)
    \/ Compute_invoke_retry(CallResponses)
    \/ Compute_invoke_return

Spec == Init /\ [][Next]_vars

(***************************************************************************)
(* The specification of create_runtime alone, from the same initial        *)
(* states. What the program does by itself goes on: the calls that create  *)
(* the service and the HTTP request of the probe (which has a timeout)     *)
(* come back. What the cluster's streams deliver, and whether they end,    *)
(* is left to the cluster.                                                 *)
(***************************************************************************)
CreateNext ==
    \/ \E i \in CreateImages, m \in RuntimeMemories : create_runtime(i, m)
    \/ \E hasStatus \in BOOLEAN : taskrun_event(hasStatus)
    \/ taskrun_end
    \/ \E phase \in PodPhases : pod_event(phase)
    \/ pod_end
    \/ watch_error
    \/ _create_service
    \/ \E snap \in ServiceSnapshots : service_event(snap)
    \/ service_end
    \/ _generate_runtime_meta(ProbeResponses)

SpecCreate ==
    /\ Init
    /\ [][CreateNext]_vars
    /\ WF_vars(_create_service)
    /\ WF_vars(_generate_runtime_meta(ProbeResponses))

(***************************************************************************)
(* The invocation specification: Compute.invoke under every retry policy   *)
(* and the metadata probe of create_runtime, with every answer of          *)
(* Responses. It starts from a fresh backend, with the runtime's service   *)
(* deployed or absent, or from a create_runtime whose service wait has     *)
(* just returned.                                                          *)
(***************************************************************************)
TheRuntime == [image |-> <<"a", "/", "a">>, memory |-> 256]

TheService == _format_service_name(TheRuntime.image, TheRuntime.memory)

FreshBackend ==
    /\ InvokeQuiet
    /\ CreateQuiet
    /\ pc = "idle"
    /\ services \in {<< >>, TheService :> ReadyService(TheRuntime.image, TheRuntime.memory)}
    /\ service_hosts = << >>
    /\ endpoint \in {NoEndpoint, Url(GatewayHost)}

AboutToProbe ==
    /\ InvokeQuiet
    /\ pc = "probe"
    /\ op = "create_runtime"
    /\ runtime = TheRuntime
    /\ existed = FALSE
    /\ pod_name = << >>
    /\ service_url = Url(HostOf(TheService))
    /\ runtime_meta = None
    /\ waits = [NoWaits EXCEPT !.service = [state |-> "returned", terminal |-> TRUE]]
    /\ observed = Required
    /\ steps = <<"create_service", "wait">>
    /\ services = TheService :> ReadyService(TheRuntime.image, TheRuntime.memory)
    /\ service_hosts = TheService :> HostOf(TheService)
    /\ endpoint \in {Url(GatewayHost), Url(HostOf(TheService))}

InvokeInit ==
    /\ CodecQuiet
    /\ UtilsQuiet
    /\ threads = NoThreads
    /\ orchestrators = NoOrchestrators
    /\ BuildQuiet
    /\ invocation_retry \in BOOLEAN
    /\ retries \in 0..MaxRetries
    /\ headers = << >>
    /\ FreshBackend \/ AboutToProbe

InvokeNext ==
    \/ Compute_invoke_first(TheRuntime.image, TheRuntime.memory, Responses)
    \/ Compute_invoke_retry(Responses)
    \/ Compute_invoke_return
    \/ _generate_runtime_meta(Responses)

SpecInvoke == InvokeInit /\ [][InvokeNext]_vars

(***************************************************************************)
(* The name-encoding specification: every well-formed image name up to     *)
(* MaxLen characters, encoded, decoded and encoded again, on a cluster     *)
(* that holds the service created from the pair, which delete_all_runtimes *)
(* may list and delete at any time.                                        *)
(***************************************************************************)
CodecInit ==
    /\ image \in ImageNames
    /\ memory \in Memories
    /\ service_name = << >>
    /\ decoded = NoDecoded
    /\ reencoded = << >>
    /\ cpc = "start"
    /\ pc = "idle"
    /\ UtilsQuiet
    /\ threads = NoThreads
    /\ orchestrators = NoOrchestrators
    /\ InvokeQuiet
    /\ CreateQuiet
    /\ BuildQuiet
    /\ invocation_retry = FALSE
    /\ retries = 0
    /\ services = (_format_service_name(image, memory) :> ReadyService(image, memory))
    /\ service_hosts = << >>
    /\ endpoint = NoEndpoint
    /\ headers = << >>

otherThanCodec == <<configVars, services, backendVars, pc, invokeVars,
                    buildVars, createVars, utilsVars, threads, orchestrators>>

Format ==
    /\ cpc = "start"
    /\ service_name' = _format_service_name(image, memory)
    /\ cpc' = "formatted"
    /\ UNCHANGED <<image, memory, decoded, reencoded, otherThanCodec>>

Unformat ==
    /\ cpc = "formatted"
    /\ decoded' = _unformat_service_name(service_name)
    /\ cpc' = "unformatted"
    /\ UNCHANGED <<image, memory, service_name, reencoded, otherThanCodec>>

\* delete_runtime, line 430, and get_runtime_key, line 537, applied to a pair
\* that list_runtimes decoded: the name is computed again from the pair
Reformat ==
    /\ cpc = "unformatted"
    /\ decoded.ok
    /\ reencoded' = _format_service_name(decoded.image, decoded.memory)
    /\ cpc' = "reformatted"
    /\ UNCHANGED <<image, memory, service_name, decoded, otherThanCodec>>

CodecNext == Format \/ Unformat \/ Reformat \/ delete_all_runtimes

SpecCodec == CodecInit /\ [][CodecNext]_vars

(***************************************************************************)
(* The specification of runtime/utils.py: create_runtime, update_runtime   *)
(* and delete_runtime in any order, on a namespace that is empty or holds  *)
(* a service of another owner, for image names with a user and with a tag. *)
(* The default image is published, so no build takes place.                *)
(***************************************************************************)
UtilsNames == {DefaultSentinel, <<"a", "/", "a">>, <<"a", ":", "a">>}

UtilsMemories == {256}

\* a service without the ownership label, and a labelled one whose name
\* does not decode
Unlabelled ==
    <<"x">> :> [url |-> Url(<<"x">>), label |-> FALSE, image |-> <<"x">>, memory |-> 64]

Undecodable ==
    <<"x", "-", "-", "y">> :>
        [url |-> Url(<<"x">>), label |-> TRUE, image |-> <<"x">>, memory |-> 64]

UtilsSnapshots ==
    {snap \in ServiceSnapshots :
        /\ snap.hasStatus
        /\ TrueTypes(snap) = Required
        /\ Len(snap.conditions) = 3}

UtilsProbeResponses ==
    {r \in ProbeResponses : r.status = 500 \/ HasKey(r.body.data, "preinstalls")}

RuntimesInit ==
    /\ CodecQuiet
    /\ InvokeQuiet
    /\ CreateQuiet
    /\ UtilsQuiet
    /\ threads = NoThreads
    /\ orchestrators = NoOrchestrators
    /\ pc = "idle"
    /\ invocation_retry = TRUE
    /\ retries = 2
    /\ services \in {<< >>, Unlabelled @@ Undecodable}
    /\ service_hosts = << >>
    /\ endpoint = Url(GatewayHost)
    /\ headers = << >>
    /\ docker_repo = "docker.io"
    /\ revision = "1.0"
    /\ published = TRUE
    /\ taskrun = FALSE

RuntimesNext ==
    \/ \E n \in UtilsNames, m \in UtilsMemories : utils_create_runtime(n, m)
    \/ _create_service
    \/ \E snap \in UtilsSnapshots : service_event(snap)
    \/ service_end
    \/ watch_error
    \/ _generate_runtime_meta(UtilsProbeResponses)
    \/ put_runtime_meta
    \/ \E n \in UtilsNames : utils_update_runtime(n)
    \/ update_runtime_next
    \/ update_runtime_return
    \/ \E n \in UtilsNames : utils_delete_runtime(n)

SpecRuntimes == RuntimesInit /\ [][RuntimesNext]_vars

(***************************************************************************)
(* The specification of concurrent invocations: two threads call invoke    *)
(* on one fresh backend instance, each for a deployed runtime, the same    *)
(* one or two different ones.                                              *)
(***************************************************************************)
Threads == {1, 2}

ThreadRuntimes ==
    {[image |-> i, memory |-> m] : i \in InvokeImages, m \in RuntimeMemories}

ThreadsInit ==
    /\ CodecQuiet
    /\ InvokeQuiet
    /\ CreateQuiet
    /\ UtilsQuiet
    /\ BuildQuiet
    /\ orchestrators = NoOrchestrators
    /\ pc = "idle"
    /\ invocation_retry = FALSE
    /\ retries = 0
    /\ services = [n \in {_format_service_name(rt.image, rt.memory) : rt \in ThreadRuntimes}
                     |-> LET rt == CHOOSE x \in ThreadRuntimes :
                                      _format_service_name(x.image, x.memory) = n
                         IN  ReadyService(rt.image, rt.memory)]
    /\ service_hosts = << >>
    /\ endpoint \in {NoEndpoint, Url(GatewayHost)}
    /\ headers = << >>
    /\ \E a, b \in ThreadRuntimes :
         threads = (1 :> ThreadAt(a.image, a.memory)) @@ (2 :> ThreadAt(b.image, b.memory))

ThreadsNext ==
    \/ \E t \in Threads : thread_resolve(t)
    \/ \E t \in Threads : thread_endpoint(t)
    \/ \E t \in Threads : thread_request(t)
    \/ \E t \in Threads, r \in CallResponses : thread_response(t, r)

SpecThreads == ThreadsInit /\ [][ThreadsNext]_vars

(***************************************************************************)
(* The specification of concurrent builds: two orchestrator instances run  *)
(* create_runtime for the default image, each about to check the registry. *)
(***************************************************************************)
Orchestrators == {1, 2}

BuildRaceInit ==
    /\ CodecQuiet
    /\ InvokeQuiet
    /\ CreateQuiet
    /\ UtilsQuiet
    /\ threads = NoThreads
    /\ pc = "idle"
    /\ invocation_retry = FALSE
    /\ retries = 0
    /\ services = << >>
    /\ service_hosts = << >>
    /\ endpoint = NoEndpoint
    /\ headers = << >>
    /\ \E c \in {<<"docker.io", "1.0">>, <<"docker.io", "latest">>,
                 <<"private.example", "1.0">>} :
         docker_repo = c[1] /\ revision = c[2]
    /\ published \in BOOLEAN
    /\ taskrun = FALSE
    /\ orchestrators = [i \in Orchestrators |-> OrchestratorAt("check")]

BuildRaceNext ==
    \/ \E i \in Orchestrators : orchestrator_check(i)
    \/ \E i \in Orchestrators : orchestrator_build(i)
    \/ \E i \in Orchestrators, phase \in {"Succeeded", "Failed"} :
          orchestrator_build_end(i, phase)

SpecBuildRace == BuildRaceInit /\ [][BuildRaceNext]_vars

(***************************************************************************)
(* Vocabulary of the claims about invocations.                             *)
(***************************************************************************)
Last(q) == q[Len(q)]

\* an attempt that failed in a way the specification calls eligible for
\* retry: a transport failure, or a status other than 200, 202 and 404
EligibleFailure(e) ==
    \/ e.kind = "transport"
    \/ e.kind = "response" /\ e.status \notin {200, 202, 404}

\* an attempt answered 200 or 202 with an activation id
Succeeded(e) == e.kind = "response" /\ e.status \in {200, 202} /\ e.id # ""

InCompute == op = "invoke"

(***************************************************************************)
(* C1: a 404 response is never retried, whatever the retry policy: after   *)
(* an attempt of a Compute.invoke call received 404 there is no further    *)
(* attempt for that call, and the call does not end with an activation id. *)
(***************************************************************************)
C1_NotFoundNeverRetried ==
    InCompute =>
        /\ \A k \in 1..Len(attempt_log) :
              attempt_log[k].status = 404 => k = Len(attempt_log)
        /\ (pc = "returned" /\ \E k \in 1..Len(attempt_log) : attempt_log[k].status = 404)
              => ~Truthy(act_id)

(***************************************************************************)
(* C2: with retry enabled and max_attempts = 3, a call whose attempts all  *)
(* fail with a retry-eligible failure makes exactly 3 attempts and returns *)
(* None; a call whose first attempt succeeds makes exactly 1 attempt and   *)
(* returns the activation id of that attempt.                              *)
(***************************************************************************)
C2_ExactAttempts ==
    (InCompute /\ invocation_retry /\ retries = 3 /\ pc = "returned") =>
        /\ (\A k \in 1..Len(attempt_log) : EligibleFailure(attempt_log[k]))
              => Len(attempt_log) = 3 /\ act_id = None
        /\ Succeeded(attempt_log[1])
              => Len(attempt_log) = 1 /\ act_id = Str(attempt_log[1].id)

C2_Witness ==
    /\ InCompute /\ invocation_retry /\ retries = 3 /\ pc = "returned"
    /\ Len(attempt_log) = 3
    /\ \A k \in 1..3 : EligibleFailure(attempt_log[k])
    /\ act_id = None

(***************************************************************************)
(* C3, as stated: the number of backend attempts of one Compute.invoke     *)
(* call never exceeds max_attempts, for every policy, max_attempts 0       *)
(* included.                                                               *)
(***************************************************************************)
C3_AttemptsWithinMax == InCompute => Len(attempt_log) <= retries

(***************************************************************************)
(* C3, amended: one attempt is always made; the number of backend attempts *)
(* of one Compute.invoke call never exceeds max(1, max_attempts).          *)
(***************************************************************************)
C3_AttemptsWithinMaxOrOne ==
    InCompute => Len(attempt_log) <= (IF retries < 1 THEN 1 ELSE retries)

C3_Witness ==
    /\ InCompute /\ invocation_retry /\ retries = 2 /\ pc = "returned"
    /\ Len(attempt_log) = 2
    /\ act_id = None

(***************************************************************************)
(* C4, as stated: Compute.invoke never raises, whatever fails, a failed    *)
(* host resolution included.                                               *)
(***************************************************************************)
C4_NeverRaises == ~(InCompute /\ pc = "raised")

(***************************************************************************)
(* C4, amended: Compute.invoke raises only when the host resolution of an  *)
(* attempt failed; every failure of an attempt that got as far as the HTTP *)
(* request (a status other than 200 and 202, a transport failure, a body   *)
(* that does not parse or lacks the activation id, retries exhausted)      *)
(* gives None and no exception.                                            *)
(***************************************************************************)
C4_RaisesOnlyOnHostResolution ==
    InCompute =>
        /\ pc = "raised" => Last(attempt_log).kind = "nohost"
        /\ (pc \in {"while", "returned"} /\ ~Succeeded(Last(attempt_log)))
              => act_id = None

C4_Witness ==
    /\ InCompute /\ pc = "returned"
    /\ invocation_retry /\ Len(attempt_log) = retries /\ retries >= 2
    /\ resp.kind = "response" /\ resp.status = 200 /\ ~resp.body.parses
    /\ attempt_log[1].kind = "transport"
    /\ act_id = None

(***************************************************************************)
(* C6: classification of a single attempt. A 200 or 202 response gives the *)
(* whole parsed body when the result is asked for (the metadata probe) and *)
(* the body's activationId otherwise; a transport failure or a status      *)
(* other than 200, 202 and 404 gives None, and Compute.invoke then makes   *)
(* another attempt whenever the policy allows one.                         *)
(***************************************************************************)
OtherFailure(r) ==
    \/ r.kind = "transport"
    \/ r.kind = "response" /\ r.status \notin {200, 202, 404}

ParsedOk(r) == r.kind = "response" /\ r.status \in {200, 202} /\ r.body.parses

C6_AttemptResult ==
    /\ (op = "create_runtime" /\ pc \in {"returned", "raised"} /\ ParsedOk(resp))
          => runtime_meta = Dict(resp.body.data)
    /\ (op = "create_runtime" /\ pc \in {"returned", "raised"} /\ OtherFailure(resp))
          => runtime_meta = None
    /\ (InCompute /\ pc \in {"while", "returned"} /\ ParsedOk(resp)
            /\ HasKey(resp.body.data, "activationId"))
          => act_id = Str(Get(resp.body.data, "activationId"))
    /\ (InCompute /\ pc \in {"while", "returned"} /\ OtherFailure(resp))
          => act_id = None

C6_RetryEligible ==
    (InCompute /\ pc = "while" /\ OtherFailure(resp)
        /\ invocation_retry /\ attempts < retries)
      => pc' # "returned"

C6_Classification == [] C6_AttemptResult /\ [][C6_RetryEligible]_vars

C6_Witness ==
    /\ InCompute /\ pc = "while"
    /\ Len(attempt_log) = 2
    /\ attempt_log[1].status = 500
    /\ resp.kind = "response" /\ resp.status = 202
    /\ act_id = Str("act2")

(***************************************************************************)
(* C5: the round-trip law of the service-name encoding. For every image    *)
(* name without the separator sequence '--' and every memory value,        *)
(* decoding the encoded name gives back exactly (image, memory).           *)
(***************************************************************************)
C5_RoundTripLaw ==
    (cpc = "unformatted" /\ ~Contains(image, Sep))
        => /\ decoded.ok
           /\ decoded.image = image
           /\ decoded.memory = memory

(***************************************************************************)
(* C7: the service readiness wait returns an endpoint to create_runtime    *)
(* only if every required readiness condition, looked up by its type, has  *)
(* been seen with status 'True' in an event of the stream.                 *)
(***************************************************************************)
C7_ReadyOnlyWhenConditionsTrue ==
    waits.service.state = "returned" => observed = Required

(***************************************************************************)
(* C8: no wait (TaskRun wait, build-pod wait, service readiness wait)      *)
(* returns normally before one of its events was terminal; a stream that   *)
(* ends without a terminal event is an error. The code sets no deadline.   *)
(***************************************************************************)
C8_WaitsReturnOnlyAfterTerminal ==
    /\ waits.taskrun.state = "returned" => waits.taskrun.terminal
    /\ waits.pod.state = "returned" => waits.pod.terminal
    /\ waits.service.state = "returned" => waits.service.terminal

(***************************************************************************)
(* C9: delete_runtime is idempotent. It never surfaces an error; called    *)
(* for a runtime whose service is absent from the cluster (never created,  *)
(* or deleted by the call before) it leaves the services as they are.      *)
(***************************************************************************)
C9_NoErrorSurfaced == op = "delete_runtime" => pc = "returned"

C9_AbsentIsNoop ==
    (Idle /\ op' = "delete_runtime"
        /\ _format_service_name(runtime'.image, runtime'.memory) \notin DOMAIN services)
      => pc' = "returned" /\ services' = services

C9_DeleteIdempotent == [] C9_NoErrorSurfaced /\ [][C9_AbsentIsNoop]_vars

C9_Witness ==
    /\ op = "delete_runtime" /\ pc = "returned"
    /\ ~existed
    /\ services # << >>

(***************************************************************************)
(* C10: host cache coherence. After any sequence of create_runtime,        *)
(* delete_runtime, delete_all_runtimes and invoke, the host cache holds no *)
(* entry for a service that is not in the cluster.                         *)
(***************************************************************************)
C10_CacheCoherent ==
    \A n \in DOMAIN service_hosts : n \in DOMAIN services

(***************************************************************************)
(* C11: list_runtimes('all') returns, for every labelled service whose     *)
(* name decodes, exactly the (image, memory) pair the service was created  *)
(* from; list_runtimes(image) returns exactly the pairs of the labelled    *)
(* services created from that image; a service without the label or with   *)
(* a name that does not decode is passed over.                             *)
(***************************************************************************)
Labelled == {n \in DOMAIN services : services[n].label}

CreatedFrom(n) == <<services[n].image, services[n].memory>>

C11_ListReturnsCreatingPairs ==
    LET owned == {n \in Labelled : _unformat_service_name(n).ok}
    IN  /\ list_runtimes(All) = {CreatedFrom(n) : n \in owned}
        /\ \A i \in UtilsNames \ {DefaultSentinel} :
             list_runtimes(i) =
                {CreatedFrom(n) : n \in {m \in owned : services[m].image = i}}

(***************************************************************************)
(* C12: a create_runtime of the default image that succeeds, with no       *)
(* artifact published at the tag when it started, has performed exactly    *)
(* one build, one service creation, one readiness wait, which saw every    *)
(* required condition true, and one request to '/preinstalls', and it      *)
(* returns the object that request answered, with a 'preinstalls' field.   *)
(***************************************************************************)
C12_DefaultCreateScenario ==
    (op = "create_runtime" /\ pc = "returned"
        /\ runtime.image = DefaultImage /\ ~existed)
      => /\ steps = <<"build", "create_service", "wait", "POST /preinstalls">>
         /\ observed = Required
         /\ runtime_meta = Dict(resp.body.data)
         /\ HasKey(runtime_meta.dict, "preinstalls")

(***************************************************************************)
(* C13, as stated: whenever the artifact is published at the target tag,   *)
(* a create_runtime of the default image attempts no build, whatever the   *)
(* registry and the revision.                                              *)
(***************************************************************************)
DefaultCreateBegins ==
    /\ Idle
    /\ op' = "create_runtime"
    /\ pc' \in {"taskrun_wait", "create_service"}
    /\ runtime'.image = DefaultImage

NoBuildAttempted == steps' = << >> /\ taskrun' = taskrun /\ pc' = "create_service"

C13_NoBuildWhenPublished ==
    [][(DefaultCreateBegins /\ published) => NoBuildAttempted]_vars

(***************************************************************************)
(* C13, amended: a create_runtime of the default image attempts no build   *)
(* exactly when the registry is docker.io, the revision is not 'latest'    *)
(* and the artifact is published at the tag; otherwise it creates the      *)
(* build's TaskRun, published artifact or not.                             *)
(***************************************************************************)
C13_NoBuildOnlyWhenChecked ==
    [][DefaultCreateBegins =>
         (NoBuildAttempted <=>
            (docker_repo = "docker.io" /\ revision # "latest" /\ published))]_vars

C13_Witness ==
    /\ op = "create_runtime" /\ pc = "create_service"
    /\ runtime.image = DefaultImage
    /\ existed /\ docker_repo = "docker.io" /\ revision = "1.0"
    /\ steps = << >> /\ ~taskrun

(***************************************************************************)
(* C19: every wait of create_runtime comes to an end: a create_runtime     *)
(* that waits on a stream (TaskRun, build pod, service) eventually leaves  *)
(* the wait, by a terminal event or by a deadline, also when the stream    *)
(* never ends and never delivers a terminal event.                         *)
(***************************************************************************)
Waiting == pc \in {"taskrun_wait", "pod_wait", "service_wait"}

C19_WaitsTerminate == Waiting ~> ~Waiting

(***************************************************************************)
(* C14: concurrent invocations through one backend instance do not         *)
(* interfere: under every interleaving of two invoke calls, the request    *)
(* of each call carries the host of the service of its own runtime.        *)
(***************************************************************************)
C14_RequestCarriesOwnHost ==
    \A t \in DOMAIN threads :
        threads[t].pc \in {"response", "done"}
          => threads[t].sent.Host =
                HostOf(_format_service_name(threads[t].image, threads[t].memory))

(***************************************************************************)
(* C15: create_runtime fails, and returns no metadata, whenever the        *)
(* metadata probe returns an absent result or an object without the        *)
(* 'preinstalls' field.                                                    *)
(***************************************************************************)
ProbeDone ==
    /\ op = "create_runtime"
    /\ pc \in {"returned", "raised"}
    /\ Len(attempt_log) = 1

C15_BadProbeFailsCreate ==
    (ProbeDone /\ (~Truthy(runtime_meta) \/ ~HasKey(runtime_meta.dict, "preinstalls")))
      => pc = "raised"

C15_Witness ==
    /\ ProbeDone
    /\ pc = "raised"
    /\ resp.kind = "response" /\ resp.status = 200
    /\ runtime_meta = Dict({<<"activationId", "act1">>})

(***************************************************************************)
(* C18: with retry disabled, Compute.invoke makes exactly one backend      *)
(* attempt, whatever its outcome, and returns the result of that attempt;  *)
(* a further attempt is made only with retry enabled and after an attempt  *)
(* that returned an absent result.                                         *)
(***************************************************************************)
ResultOf(e) == IF Succeeded(e) THEN Str(e.id) ELSE None

C18_SingleAttempt ==
    (InCompute /\ ~invocation_retry)
      => /\ Len(attempt_log) = 1
         /\ pc = "returned" => act_id = ResultOf(attempt_log[1])

C18_FurtherAttempt ==
    (InCompute /\ Len(attempt_log) >= 1 /\ Len(attempt_log') > Len(attempt_log))
      => invocation_retry /\ ~Truthy(act_id)

C18_RetryOnlyIfEnabled == [] C18_SingleAttempt /\ [][C18_FurtherAttempt]_vars

C18_Witness ==
    /\ InCompute /\ pc = "returned"
    /\ ~invocation_retry /\ retries = 3
    /\ Len(attempt_log) = 1 /\ attempt_log[1].status = 500
    /\ act_id = None

(***************************************************************************)
(* C20: an invocation whose host resolution fails, the service of the      *)
(* runtime being absent from the cluster, fails at once with an error: no  *)
(* HTTP request is sent, Compute.invoke makes no further attempt, and the  *)
(* host cache gets no entry.                                               *)
(***************************************************************************)
C20_AbsentServiceIsFatal ==
    /\ (InCompute /\ TheService \notin DOMAIN services)
         => /\ pc = "raised"
            /\ Len(attempt_log) = 1
            /\ resp = NoResponse
            /\ headers = << >>
            /\ service_hosts = << >>
    /\ InCompute =>
         \A i \in 1..Len(attempt_log) :
            attempt_log[i].kind = "nohost"
               => i = Len(attempt_log) /\ pc = "raised" /\ resp = NoResponse

C20_Witness ==
    /\ InCompute /\ pc = "raised"
    /\ TheService \notin DOMAIN services
    /\ invocation_retry /\ retries = 3
    /\ attempt_log = <<[kind |-> "nohost", status |-> 0, id |-> ""]>>

(***************************************************************************)
(* C16: metadata records track deployed services. When create_runtime of   *)
(* runtime/utils.py returns, the record is stored under the key of the     *)
(* service that was deployed; when delete_runtime(name) returns, and the   *)
(* cluster refused no deletion, no service created from name is left and   *)
(* no record of it, under the key of the service or under the key          *)
(* create_runtime computed. 'default' names the default image.             *)
(***************************************************************************)
Matches(img, name) ==
    img = name \/ (name = DefaultSentinel /\ img = DefaultImage)

C16_MetadataTracksServices ==
    /\ (op = "utils.create_runtime" /\ pc = "returned")
         => /\ _format_service_name(runtime.image, runtime.memory) \in DOMAIN services
            /\ runtime_key = get_runtime_key(runtime.image, runtime.memory)
            /\ runtime_key \in meta_store
    /\ (op = "utils.delete_runtime" /\ pc = "returned" /\ failed = {})
         => \A r \in before :
               Matches(r.image, request)
                 => /\ _format_service_name(r.image, r.memory) \notin DOMAIN services
                    /\ get_runtime_key(r.image, r.memory) \notin meta_store
                    /\ get_runtime_key(request, r.memory) \notin meta_store

(***************************************************************************)
(* C17: update_runtime(name), when every recreation succeeds, has          *)
(* recreated exactly the deployed runtimes created from name, each with    *)
(* its memory, and leaves the set of deployed (image, memory) pairs as it  *)
(* was.                                                                    *)
(***************************************************************************)
C17_UpdatePreservesDeployed ==
    (op = "utils.update_runtime" /\ pc = "returned")
      => /\ handled = {r \in before : r.image = request}
         /\ Deployed = before

(***************************************************************************)
(* C21: the order of create_runtime: the service resource is created only  *)
(* after the build ended in success or was skipped; the metadata probe is  *)
(* sent only after the readiness wait saw the service Ready; and a build   *)
(* whose pod shows the Failed phase ends create_runtime with an error      *)
(* before any service resource is created or deleted.                      *)
(***************************************************************************)
Did(step) == \E k \in 1..Len(steps) : steps[k] = step

BuildSucceeded == waits.pod = [state |-> "returned", terminal |-> TRUE]

C21_ServiceAfterBuild ==
    Did("create_service") => (~Did("build") \/ BuildSucceeded)

C21_ProbeAfterReady ==
    Did("POST /preinstalls") => observed = Required

C21_FailedBuildAborts ==
    waits.pod = [state |-> "raised", terminal |-> TRUE]
      => pc = "raised" /\ steps = <<"build">>

C21_LifecycleOrdering ==
    op = "create_runtime"
      => C21_ServiceAfterBuild /\ C21_ProbeAfterReady /\ C21_FailedBuildAborts

(***************************************************************************)
(* C22: a failure shown by an event ends the wait at once with a failure:  *)
(* the build-pod wait raises at an event with phase Failed, and the        *)
(* service readiness wait fails at an event that shows a required          *)
(* condition in the failed state, instead of waiting on.                   *)
(***************************************************************************)
C22_FailedPodEndsWait ==
    [][pod_event("Failed") => pc' = "raised"]_vars

C22_FailedConditionEndsWait ==
    [][\A snap \in ServiceSnapshots :
          (FailedTypes(snap) # {} /\ service_event(snap)) => pc' = "raised"]_vars

C22_FailureEndsWait ==
    [][/\ pod_event("Failed") => pc' = "raised"
       /\ \A snap \in ServiceSnapshots :
            (FailedTypes(snap) # {} /\ service_event(snap)) => pc' = "raised"]_vars

(***************************************************************************)
(* C23: the build is for the default image only: create_runtime makes a    *)
(* build attempt exactly when its image argument is the 'default' sentinel *)
(* or the default runtime image name; for every other image it creates no  *)
(* build resource and goes straight to the creation of the service.        *)
(***************************************************************************)
CreateBegins ==
    /\ Idle
    /\ op' = "create_runtime"
    /\ pc' \in {"taskrun_wait", "create_service"}

BuildStarted == steps' = <<"build">> /\ taskrun' /\ pc' = "taskrun_wait"

C23_BuildOnlyForDefault ==
    [][CreateBegins =>
         /\ runtime'.image # DefaultImage => NoBuildAttempted
         /\ ~NoBuildAttempted => (runtime'.image = DefaultImage /\ BuildStarted)
         /\ (runtime'.image = DefaultImage /\ ~published) => BuildStarted]_vars

C23_Witness ==
    /\ op = "create_runtime" /\ pc = "create_service"
    /\ runtime.image \in RuntimeImages
    /\ ~existed /\ ~taskrun /\ steps = << >>
    /\ waits = NoWaits

(***************************************************************************)
(* C24: nothing is rolled back: when create_runtime fails after the        *)
(* service was created, at the metadata probe, the operation ends with an  *)
(* error, the deployed service stays in the cluster as it was, and no      *)
(* metadata record is written for it.                                      *)
(***************************************************************************)
ProbeFails ==
    /\ op = "utils.create_runtime"
    /\ pc = "probe" /\ pc' # "probe"
    /\ MetaRejected(runtime_meta')

C24_NoRollback ==
    [][ProbeFails =>
         /\ pc' = "raised"
         /\ _format_service_name(runtime.image, runtime.memory) \in DOMAIN services'
         /\ services' = services
         /\ meta_store' = meta_store]_vars

C24_Witness ==
    /\ op = "utils.create_runtime" /\ pc = "raised"
    /\ Did("create_service") /\ Did("POST /preinstalls")
    /\ observed = Required
    /\ _format_service_name(runtime.image, runtime.memory) \in DOMAIN services
    /\ runtime_key \notin meta_store

(***************************************************************************)
(* C25: the existence check of the build is an unlocked check-then-act: an *)
(* orchestrator instance that found no artifact goes on to create its      *)
(* TaskRun whatever another instance has done since, so two instances that *)
(* run create_runtime for the default image with no artifact published can *)
(* both pass the check and both start a build.                             *)
(***************************************************************************)
PassedCheck(i) == orchestrators[i].saw \in {"404", "unchecked"}

C25_CheckThenAct ==
    \A i \in DOMAIN orchestrators :
        (PassedCheck(i) /\ orchestrators[i].pc \notin {"check", "build"})
          => orchestrators[i].started

C25_DoubleBuild ==
    /\ docker_repo = "docker.io" /\ revision = "1.0" /\ ~published
    /\ DOMAIN orchestrators = Orchestrators
    /\ \A i \in Orchestrators :
         /\ orchestrators[i].saw = "404"
         /\ orchestrators[i].started
         /\ orchestrators[i].pc = "building"
    /\ \E i \in Orchestrators : orchestrators[i].replaced

(***************************************************************************)
(* C26: the name encoding keeps the separator out of image names:          *)
(* _format_service_name yields no service name for an image name that      *)
(* contains '--', and no two distinct (image, memory) pairs are mapped to  *)
(* the same service name or runtime key.                                   *)
(***************************************************************************)
Formatted == cpc \in {"formatted", "unformatted", "reformatted"}

C26_SeparatorRejected ==
    (Formatted /\ Contains(image, Sep)) => service_name = << >>

C26_NoCollision ==
    (Formatted /\ service_name # << >>)
      => \A i \in ImageNames, m \in Memories :
            <<i, m>> # <<image, memory>>
              => /\ _format_service_name(i, m) # service_name
                 /\ get_runtime_key(i, m) # get_runtime_key(image, memory)

C26_EncodingInjective == C26_SeparatorRejected /\ C26_NoCollision

(***************************************************************************)
(* C27: encoding a decoded name again gives the name back: for a service   *)
(* name s made by _format_service_name, the name and the runtime key       *)
(* computed from _unformat_service_name(s) are those of s; so a delete of  *)
(* a listed pair is aimed at the service the pair was listed from, and     *)
(* when delete_all_runtimes has returned with no deletion refused by the   *)
(* cluster, no labelled service with a decodable name is left.             *)
(***************************************************************************)
Owned == {n \in Labelled : _unformat_service_name(n).ok}

====
